---- MODULE Spec2Model ----
(***************************************************************************)
(* kconf: a library of kubeconfig files kept as symbolic links in one      *)
(* directory (main.go).  One run of the binary is one action: main parses  *)
(* os.Args, validates the flags, resolves the store directory and runs     *)
(* one handler (add, set, list, remove) against the filesystem.            *)
(*                                                                         *)
(* Strings are sequences of one-character strings, so that strconv.Atoi,   *)
(* strings.TrimSpace, strings.Split, path.Base, path.Join and              *)
(* filepath.Abs are computed character by character.  The filesystem is a  *)
(* function from resolved absolute paths (sequences of names) to nodes;    *)
(* the system calls the program makes (stat, lstat, symlink, readlink,     *)
(* unlink, mkdir, readdir) are operators on it.                            *)
(***************************************************************************)
EXTENDS Integers, Sequences, FiniteSets, TLC

VARIABLES
    fs,         \* the filesystem: resolved path -> node
    kubeconfig, \* the value of KUBECONFIG in the calling shell
    libpath,    \* the value of KCONF_LIBRARY_PATH in the calling shell
    pc,         \* "shell": at the prompt; "exited": a run of kconf has ended
    pre,        \* the filesystem when the last run started
    last,       \* what the last run did: arguments, handler, output, exit code
    adds        \* the add runs in progress at once: process -> its position

vars == <<fs, kubeconfig, libpath, pc, pre, last, adds>>

(***************************************************************************)
(* Bounds of the model.                                                    *)
(***************************************************************************)
\* the most symbolic links the runs of one behaviour create
MaxLinks == 3
\* the most symbolic links a path resolution follows (the kernel's limit,
\* far above any chain the model can build)
MaxFollow == 3

(***************************************************************************)
(* Characters and strings.                                                 *)
(***************************************************************************)
Digits == {"0", "1", "2", "3", "4", "5", "6", "7", "8", "9"}

\* the value of a decimal digit
DigitVal(c) ==
    CASE c = "0" -> 0 [] c = "1" -> 1 [] c = "2" -> 2 [] c = "3" -> 3
      [] c = "4" -> 4 [] c = "5" -> 5 [] c = "6" -> 6 [] c = "7" -> 7
      [] c = "8" -> 8 [] c = "9" -> 9

\* the byte value of the characters the model uses (ASCII)
Byte(c) ==
    CASE c = " " -> 32 [] c = "+" -> 43 [] c = "-" -> 45 [] c = "." -> 46
      [] c = "/" -> 47 [] c \in Digits -> 48 + DigitVal(c)
      [] c = "a" -> 97 [] c = "b" -> 98 [] c = "c" -> 99 [] c = "d" -> 100
      [] c = "e" -> 101 [] c = "f" -> 102 [] c = "g" -> 103 [] c = "h" -> 104
      [] c = "k" -> 107 [] c = "l" -> 108 [] c = "n" -> 110 [] c = "o" -> 111
      [] c = "r" -> 114 [] c = "s" -> 115 [] c = "x" -> 120 [] c = "y" -> 121
      [] c = "z" -> 122

\* s < t in the byte order of Go's string comparison
RECURSIVE StrLess(_, _)
StrLess(s, t) ==
    IF t = <<>> THEN FALSE
    ELSE IF s = <<>> THEN TRUE
    ELSE IF Head(s) = Head(t) THEN StrLess(Tail(s), Tail(t))
    ELSE Byte(Head(s)) < Byte(Head(t))

\* the concatenation of a sequence of strings, sep between them
RECURSIVE JoinStr(_, _)
JoinStr(parts, sep) ==
    IF parts = <<>> THEN <<>>
    ELSE IF Len(parts) = 1 THEN parts[1]
    ELSE parts[1] \o sep \o JoinStr(Tail(parts), sep)

\* strings.Split(s, sep) for a one-character sep: the pieces between the
\* separators, empty pieces included
RECURSIVE Split(_, _)
Split(s, sep) ==
    IF \A i \in 1..Len(s) : s[i] # sep THEN <<s>>
    ELSE LET i == CHOOSE j \in 1..Len(s) :
                      s[j] = sep /\ \A k \in 1..(j - 1) : s[k] # sep
         IN <<SubSeq(s, 1, i - 1)>> \o Split(SubSeq(s, i + 1, Len(s)), sep)

\* strings.TrimSpace(s): s without its leading and trailing white space
RECURSIVE TrimLeft(_)
TrimLeft(s) ==
    IF s # <<>> /\ Head(s) = " " THEN TrimLeft(Tail(s)) ELSE s

RECURSIVE TrimRight(_)
TrimRight(s) ==
    IF s # <<>> /\ s[Len(s)] = " " THEN TrimRight(SubSeq(s, 1, Len(s) - 1)) ELSE s

TrimSpace(s) == TrimRight(TrimLeft(s))

\* the value of a string of decimal digits
RECURSIVE DecVal(_)
DecVal(ds) ==
    IF ds = <<>> THEN 0 ELSE 10 * DecVal(SubSeq(ds, 1, Len(ds) - 1)) + DigitVal(ds[Len(ds)])

\* strconv.Atoi(s): an optional sign and at least one decimal digit, nothing
\* else; on a syntax error the value is 0 and err is set.  (The strings of
\* the model are too short to overflow an int.)
Atoi(s) ==
    LET signed == s # <<>> /\ Head(s) \in {"+", "-"}
        ds     == IF signed THEN Tail(s) ELSE s
        ok     == ds # <<>> /\ \A i \in 1..Len(ds) : ds[i] \in Digits
    IN IF ~ok THEN [val |-> 0, err |-> TRUE]
       ELSE [val |-> IF signed /\ Head(s) = "-" THEN 0 - DecVal(ds) ELSE DecVal(ds),
             err |-> FALSE]

(***************************************************************************)
(* Lexical path functions of Go's path and path/filepath packages (the     *)
(* program runs on a Unix system, where both use "/").                     *)
(***************************************************************************)
Slash == <<"/">>

IsAbs(p) == p # <<>> /\ Head(p) = "/"

\* the elements of a path that path.Clean keeps: empty elements and "."
\* dropped, ".." cancelling the element before it, ".." at the root dropped
RECURSIVE CleanElems(_, _, _)
CleanElems(elems, rooted, acc) ==
    IF elems = <<>> THEN acc
    ELSE LET e == Head(elems)
             r == Tail(elems)
         IN IF e = <<>> \/ e = <<".">> THEN CleanElems(r, rooted, acc)
            ELSE IF e = <<".", ".">>
            THEN IF acc # <<>> /\ acc[Len(acc)] # <<".", ".">>
                 THEN CleanElems(r, rooted, SubSeq(acc, 1, Len(acc) - 1))
                 ELSE IF rooted THEN CleanElems(r, rooted, acc)
                 ELSE CleanElems(r, rooted, Append(acc, e))
            ELSE CleanElems(r, rooted, Append(acc, e))

\* path.Clean(p): the shortest path name equivalent to p by lexical processing
Clean(p) ==
    IF p = <<>> THEN <<".">>
    ELSE LET elems == CleanElems(Split(p, "/"), IsAbs(p), <<>>)
         IN IF IsAbs(p) THEN Slash \o JoinStr(elems, Slash)
            ELSE IF elems = <<>> THEN <<".">>
            ELSE JoinStr(elems, Slash)

\* path.Join(a, b): the non-empty elements joined with "/" and cleaned
PathJoin(a, b) ==
    IF a = <<>> /\ b = <<>> THEN <<>>
    ELSE IF a = <<>> THEN Clean(b)
    ELSE IF b = <<>> THEN Clean(a)
    ELSE Clean(a \o Slash \o b)

\* path.Base(p): the last element of p, trailing slashes removed first
RECURSIVE StripSlashes(_)
StripSlashes(p) ==
    IF p # <<>> /\ p[Len(p)] = "/" THEN StripSlashes(SubSeq(p, 1, Len(p) - 1)) ELSE p

Base(p) ==
    IF p = <<>> THEN <<".">>
    ELSE LET q == StripSlashes(p)
         IN IF q = <<>> THEN Slash
            ELSE LET elems == Split(q, "/") IN elems[Len(elems)]

\* the working directory of every run, and the home directory of the user
Cwd == <<"/", "f">>
Home == <<"/", "h">>

\* Abs changed to leave its argument as it was given
AbsAsGiven(p) == p

\* filepath.Abs(p): p cleaned when absolute, else joined to the working
\* directory
Abs(p) == IF IsAbs(p) THEN Clean(p) ELSE PathJoin(Cwd, p)

(***************************************************************************)
(* The filesystem.  A node is a directory, a regular file or a symbolic    *)
(* link with its target; fs maps the resolved path of every node (the      *)
(* sequence of names from the root, <<>> being the root) to it.            *)
(***************************************************************************)
DirNode == [kind |-> "dir", target |-> <<>>]
FileNode == [kind |-> "file", target |-> <<>>]
LinkNode(t) == [kind |-> "link", target |-> t]

\* the names of a path string, "" standing for a doubled or trailing slash
Elems(p) == IF IsAbs(p) THEN Tail(Split(p, "/")) ELSE Split(p, "/")

\* the directory a path string is resolved from
StartDir(p) == IF IsAbs(p) THEN <<>> ELSE Elems(Cwd)

\* Path resolution as the kernel does it: from directory cur, name by name;
\* a symbolic link that is not the last name, or is the last one when
\* follow is set, is replaced by its target.  err is "" on success.
RECURSIVE Walk(_, _, _, _, _)
Walk(f, cur, rest, follow, fuel) ==
    IF rest = <<>> THEN [err |-> "", path |-> cur]
    ELSE LET c == Head(rest)
             r == Tail(rest)
             next == Append(cur, c)
         IN IF c = <<>> \/ c = <<".">> THEN Walk(f, cur, r, follow, fuel)
            ELSE IF c = <<".", ".">>
            THEN Walk(f, IF cur = <<>> THEN cur ELSE SubSeq(cur, 1, Len(cur) - 1),
                      r, follow, fuel)
            ELSE IF next \notin DOMAIN f THEN [err |-> "ENOENT", path |-> next]
            ELSE IF f[next].kind = "dir" THEN Walk(f, next, r, follow, fuel)
            ELSE IF f[next].kind = "file"
            THEN IF r = <<>> THEN [err |-> "", path |-> next]
                 ELSE [err |-> "ENOTDIR", path |-> next]
            ELSE IF r = <<>> /\ ~follow THEN [err |-> "", path |-> next]
            ELSE IF fuel = 0 THEN [err |-> "ELOOP", path |-> next]
            ELSE LET t == f[next].target
                 IN IF t = <<>> THEN [err |-> "ENOENT", path |-> next]
                    ELSE Walk(f, IF IsAbs(t) THEN <<>> ELSE cur,
                              Elems(t) \o r, follow, fuel - 1)

\* stat(2) and lstat(2) of a path string
Stat(f, p) ==
    IF p = <<>> THEN [err |-> "ENOENT", path |-> <<>>]
    ELSE Walk(f, StartDir(p), Elems(p), TRUE, MaxFollow)

Lstat(f, p) ==
    IF p = <<>> THEN [err |-> "ENOENT", path |-> <<>>]
    ELSE Walk(f, StartDir(p), Elems(p), FALSE, MaxFollow)

\* f with node n at resolved path q
WithNode(f, q, n) == [x \in DOMAIN f \cup {q} |-> IF x = q THEN n ELSE f[x]]

\* f without the node at resolved path q
WithoutNode(f, q) == [x \in DOMAIN f \ {q} |-> f[x]]

\* the resolved paths of the children of directory d
Children(f, d) == {q \in DOMAIN f : Len(q) = Len(d) + 1 /\ SubSeq(q, 1, Len(d)) = d}

\* Create changed to replace the node of an existing name
CreateOver(f, p, n) ==
    LET es     == Elems(IF n.kind = "dir" THEN StripSlashes(p) ELSE p)
        name   == es[Len(es)]
        parent == Walk(f, StartDir(p), SubSeq(es, 1, Len(es) - 1), TRUE, MaxFollow)
    IN IF p = <<>> THEN [err |-> "ENOENT", fs |-> f]
       ELSE IF es = <<>> \/ name \in {<<>>, <<".">>, <<".", ".">>}
       THEN [err |-> "EEXIST", fs |-> f]
       ELSE IF parent.err # "" THEN [err |-> parent.err, fs |-> f]
       ELSE IF f[parent.path].kind # "dir" THEN [err |-> "ENOTDIR", fs |-> f]
       ELSE [err |-> "", fs |-> WithNode(f, Append(parent.path, name), n)]

\* Creation of a node at path string p (symlink(2), mkdir(2)): the parent is
\* resolved, the last name must be free.  An existing name is never
\* replaced: the call fails with EEXIST.
Create(f, p, n) ==
    LET es     == Elems(IF n.kind = "dir" THEN StripSlashes(p) ELSE p)
        name   == es[Len(es)]
        parent == Walk(f, StartDir(p), SubSeq(es, 1, Len(es) - 1), TRUE, MaxFollow)
        whole  == Stat(f, p)
    IN IF p = <<>> THEN [err |-> "ENOENT", fs |-> f]
       ELSE IF es = <<>> \/ name \in {<<>>, <<".">>, <<".", ".">>}
       THEN [err |-> IF whole.err = "" THEN "EEXIST" ELSE whole.err, fs |-> f]
       ELSE IF parent.err # "" THEN [err |-> parent.err, fs |-> f]
       ELSE IF f[parent.path].kind # "dir" THEN [err |-> "ENOTDIR", fs |-> f]
       ELSE IF Append(parent.path, name) \in DOMAIN f THEN [err |-> "EEXIST", fs |-> f]
       ELSE [err |-> "", fs |-> WithNode(f, Append(parent.path, name), n)]

\* readlink(2): the target of the symbolic link at path string p
Readlink(f, p) ==
    LET l == Lstat(f, p)
    IN IF l.err # "" THEN [err |-> l.err, target |-> <<>>]
       ELSE IF f[l.path].kind # "link" THEN [err |-> "EINVAL", target |-> <<>>]
       ELSE [err |-> "", target |-> f[l.path].target]

\* Unlink changed to follow a symbolic link and remove what it points to
UnlinkFollow(f, p) ==
    LET l == Stat(f, p)
    IN IF l.err # "" THEN [err |-> l.err, fs |-> f]
       ELSE IF l.path = <<>> THEN [err |-> "EBUSY", fs |-> f]
       ELSE IF f[l.path].kind = "dir" /\ Children(f, l.path) # {}
       THEN [err |-> "ENOTEMPTY", fs |-> f]
       ELSE [err |-> "", fs |-> WithoutNode(f, l.path)]

\* os.Remove(p): unlink(2), or rmdir(2) for a directory; a symbolic link is
\* removed itself, never the node it points to
Unlink(f, p) ==
    LET l == Lstat(f, p)
    IN IF l.err # "" THEN [err |-> l.err, fs |-> f]
       ELSE IF l.path = <<>> THEN [err |-> "EBUSY", fs |-> f]
       ELSE IF f[l.path].kind = "dir" /\ Children(f, l.path) # {}
       THEN [err |-> "ENOTEMPTY", fs |-> f]
       ELSE [err |-> "", fs |-> WithoutNode(f, l.path)]

\* the names of a set in increasing byte order
RECURSIVE SortNames(_)
SortNames(S) ==
    IF S = {} THEN <<>>
    ELSE LET m == CHOOSE x \in S : \A y \in S \ {x} : StrLess(x, y)
         IN <<m>> \o SortNames(S \ {m})

\* ioutil.ReadDir(p): the entries of the directory, not following links,
\* sorted by file name
ReadDir(f, p) ==
    LET d == Stat(f, p)
    IN IF d.err # "" THEN [err |-> d.err, files |-> <<>>]
       ELSE IF f[d.path].kind # "dir" THEN [err |-> "ENOTDIR", files |-> <<>>]
       ELSE LET names == SortNames({q[Len(q)] : q \in Children(f, d.path)})
            IN [err |-> "",
                files |-> [i \in 1..Len(names) |->
                              [name |-> names[i],
                               kind |-> f[Append(d.path, names[i])].kind]]]

(***************************************************************************)
(* main.go                                                                 *)
(***************************************************************************)
\* const defaultConfigDir = ".kconf"
defaultConfigDir == <<".", "k", "c", "o", "n", "f">>

\* a line printed on standard output: the format of the Printf or Println
\* that prints it and the values it prints
Line(fmt, a, b, n, star) == [fmt |-> fmt, a |-> a, b |-> b, n |-> n, star |-> star]

\* what a handler returns: the error ("" for nil), the lines it printed, the
\* filesystem it leaves, the link path it handed to its result function, and
\* whether it ended in a run-time panic
Ret(err, out, f, sel, panic) ==
    [err |-> err, out |-> out, fs |-> f, sel |-> sel, panic |-> panic]

\* func exists(path string) bool: os.Stat follows symbolic links, and only
\* "no such file or directory" counts as absent
exists(f, p) == Stat(f, p).err # "ENOENT"

\* SelectLinks changed to keep every child of the directory
SelectAll(files) == files

\* the entries listSymDir keeps: not a directory, and a symbolic link
RECURSIVE SelectLinks(_)
SelectLinks(files) ==
    IF files = <<>> THEN <<>>
    ELSE IF Head(files).kind # "dir" /\ Head(files).kind = "link"
    THEN <<Head(files)>> \o SelectLinks(Tail(files))
    ELSE SelectLinks(Tail(files))

\* func listSymDir(dir string) ([]fs.FileInfo, error)
listSymDir(f, dir) ==
    LET r == ReadDir(f, dir)
    IN IF r.err # "" THEN [err |-> r.err, files |-> <<>>]
       ELSE [err |-> "", files |-> SelectLinks(r.files)]

\* slinkOf changed to cut the base name before its last dot
slinkLastDot(args) ==
    IF Len(args) = 1
    THEN JoinStr(SubSeq(Split(Base(args[1]), "."), 1,
                        IF Len(Split(Base(args[1]), ".")) = 1 THEN 1
                        ELSE Len(Split(Base(args[1]), ".")) - 1), ".")
    ELSE args[2]

\* addKubeconfig, lines 116 and 120: the name of the link, the base name of
\* the file up to its first dot when no alias is given
slinkOf(args) ==
    IF Len(args) = 1 THEN Split(Base(args[1]), ".")[1] ELSE args[2]

\* link changed to make the link without looking for the file
linkUnchecked(f, slink, symlink, file) ==
    IF exists(f, symlink)
    THEN Ret("kubeconfig already exists", <<>>, f, <<>>, FALSE)
    ELSE IF Create(f, symlink, LinkNode(file)).err # ""
    THEN Ret(Create(f, symlink, LinkNode(file)).err, <<>>, f, <<>>, FALSE)
    ELSE Ret("", <<Line("%s -> %s added", slink, file, 0, FALSE)>>,
             Create(f, symlink, LinkNode(file)).fs, <<>>, FALSE)

\* addKubeconfig, lines 123-144: the link symlink to file is made when file
\* exists and symlink does not
link(f, slink, symlink, file) ==
    IF ~exists(f, file) THEN Ret("kubeconfig not found", <<>>, f, <<>>, FALSE)
    ELSE IF exists(f, symlink)
    THEN Ret("kubeconfig already exists", <<>>, f, <<>>, FALSE)
    ELSE IF Create(f, symlink, LinkNode(file)).err # ""
    THEN Ret(Create(f, symlink, LinkNode(file)).err, <<>>, f, <<>>, FALSE)
    ELSE Ret("", <<Line("%s -> %s added", slink, file, 0, FALSE)>>,
             Create(f, symlink, LinkNode(file)).fs, <<>>, FALSE)

\* func addKubeconfig(configPath string, args []string) error
addKubeconfig(f, configPath, args) ==
    IF Len(args) < 1 THEN Ret("not enough arguments", <<>>, f, <<>>, FALSE)
    ELSE link(f, slinkOf(args), configPath \o Slash \o slinkOf(args), Abs(args[1]))

\* printList changed to mark the entry that has the base name of KUBECONFIG
printStarByName(f, configPath, currKubeConfig, l) ==
    IF l.err # "" THEN Ret(l.err, <<>>, f, <<>>, FALSE)
    ELSE Ret("",
             [i \in 1..Len(l.files) |->
                 Line("%s%d) %s", l.files[i].name, <<>>, i,
                      l.files[i].name = Base(currKubeConfig))],
             f, <<>>, FALSE)

\* printList changed to number the lines from 0
printFromZero(f, configPath, currKubeConfig, l) ==
    IF l.err # "" THEN Ret(l.err, <<>>, f, <<>>, FALSE)
    ELSE Ret("",
             [i \in 1..Len(l.files) |->
                 Line("%s%d) %s", l.files[i].name, <<>>, i - 1,
                      PathJoin(configPath, l.files[i].name) = currKubeConfig)],
             f, <<>>, FALSE)

\* listKubeconfigs, lines 163-179: one line for each file, starred when its
\* path in the store is the value of KUBECONFIG
printList(f, configPath, currKubeConfig, l) ==
    IF l.err # "" THEN Ret(l.err, <<>>, f, <<>>, FALSE)
    ELSE Ret("",
             [i \in 1..Len(l.files) |->
                 Line("%s%d) %s", l.files[i].name, <<>>, i,
                      PathJoin(configPath, l.files[i].name) = currKubeConfig)],
             f, <<>>, FALSE)

\* func listKubeconfigs(configPath string, args []string) error
listKubeconfigs(f, configPath, currKubeConfig) ==
    printList(f, configPath, currKubeConfig, listSymDir(f, configPath))

\* output changed to print the file the link points to
outputTarget(f, linkPath) ==
    Ret("", <<Line("export %s=%s", Readlink(f, linkPath).target, <<>>, 0, FALSE)>>,
        f, linkPath, FALSE)

\* func output(linkPath string) error
output(f, linkPath) ==
    Ret("", <<Line("export %s=%s", linkPath, <<>>, 0, FALSE)>>, f, linkPath, FALSE)

\* remove, lines 244-254: rl is what os.Readlink returned and rm what
\* os.Remove does; the link is removed only when its target could be read
removeLink(f, linkPath, rl, rm) ==
    IF rl.err # "" THEN Ret(rl.err, <<>>, f, linkPath, FALSE)
    ELSE IF rm.err # "" THEN Ret(rm.err, <<>>, f, linkPath, FALSE)
    ELSE Ret("", <<Line("%s -> %s removed", Base(linkPath), rl.target, 0, FALSE)>>,
             rm.fs, linkPath, FALSE)

\* func remove(linkPath string) error
remove(f, linkPath) ==
    removeLink(f, linkPath, Readlink(f, linkPath), Unlink(f, linkPath))

\* the result function makeKubeconfig is given: output for set, remove for
\* remove
Result(result, f, linkPath) ==
    IF result = "output" THEN output(f, linkPath) ELSE remove(f, linkPath)

\* selectKubeconfig changed to index files from 0: files[idx], not files[idx-1]
selectFromZero(f, configPath, arg, result, files, n) ==
    LET named == {i \in 1..Len(files) : files[i].name = TrimSpace(arg)}
        first == CHOOSE i \in named : \A j \in named : i <= j
    IN IF n.err /\ named # {}
       THEN Result(result, f, PathJoin(configPath, files[first].name))
       ELSE IF n.val < 0 \/ n.val > Len(files)
       THEN Ret("index out of range", <<>>, f, <<>>, FALSE)
       ELSE IF n.val \notin 0..(Len(files) - 1)
       THEN Ret("", <<>>, f, <<>>, TRUE)
       ELSE Result(result, f, PathJoin(configPath, files[n.val + 1].name))

\* selectKubeconfig changed to compare the names with args[0] as given, not
\* trimmed
selectUntrimmed(f, configPath, arg, result, files, n) ==
    LET named == {i \in 1..Len(files) : files[i].name = arg}
        first == CHOOSE i \in named : \A j \in named : i <= j
    IN IF n.err /\ named # {}
       THEN Result(result, f, PathJoin(configPath, files[first].name))
       ELSE IF n.val < 0 \/ n.val > Len(files)
       THEN Ret("index out of range", <<>>, f, <<>>, FALSE)
       ELSE IF n.val - 1 \notin 0..(Len(files) - 1)
       THEN Ret("", <<>>, f, <<>>, TRUE)
       ELSE Result(result, f, PathJoin(configPath, files[n.val].name))

\* makeKubeconfig, lines 191-205: the entry args[0] selects among files.  n
\* is what strconv.Atoi returned: when it failed, the first file whose name
\* is args[0] trimmed; else, and also when no name matched, the file at
\* index n.val - 1, n.val being 0 after a failed Atoi.  Indexing outside
\* files is a run-time panic.
selectKubeconfig(f, configPath, arg, result, files, n) ==
    LET named == {i \in 1..Len(files) : files[i].name = TrimSpace(arg)}
        first == CHOOSE i \in named : \A j \in named : i <= j
    IN IF n.err /\ named # {}
       THEN Result(result, f, PathJoin(configPath, files[first].name))
       ELSE IF n.val < 0 \/ n.val > Len(files)
       THEN Ret("index out of range", <<>>, f, <<>>, FALSE)
       ELSE IF n.val - 1 \notin 0..(Len(files) - 1)
       THEN Ret("", <<>>, f, <<>>, TRUE)
       ELSE Result(result, f, PathJoin(configPath, files[n.val].name))

\* makeKubeconfig, lines 186-189: an error of listSymDir is answered with nil
listed(f, configPath, arg, result, l) ==
    IF l.err # "" THEN Ret("", <<>>, f, <<>>, FALSE)
    ELSE selectKubeconfig(f, configPath, arg, result, l.files, Atoi(arg))

\* func makeKubeconfig(configPath string, args []string,
\*                     result func(string) error) error
makeKubeconfig(f, configPath, args, result) ==
    IF Len(args) = 0 THEN Ret("not enough arguments", <<>>, f, <<>>, FALSE)
    ELSE listed(f, configPath, args[1], result, listSymDir(f, configPath))

\* func setKubeconfig(configPath string, args []string) error
setKubeconfig(f, configPath, args) == makeKubeconfig(f, configPath, args, "output")

\* func removeKubeconfig(configPath string, args []string) error
removeKubeconfig(f, configPath, args) == makeKubeconfig(f, configPath, args, "remove")

\* configPath, lines 226-230: the directory is made when it does not exist
ensureDir(f, dir) ==
    IF exists(f, dir) THEN [path |-> dir, err |-> "", fs |-> f]
    ELSE [path |-> dir, err |-> Create(f, dir, DirNode).err,
          fs |-> Create(f, dir, DirNode).fs]

\* configPath, lines 217-224: KCONF_LIBRARY_PATH trimmed, or .kconf in the
\* home directory when that is empty
storeDir(trimmed) ==
    IF Len(trimmed) = 0 THEN Home \o Slash \o defaultConfigDir ELSE trimmed

\* func configPath() (string, error): the store directory, made when absent
configPath(f, env) == ensureDir(f, storeDir(TrimSpace(env)))

\* type Config struct { Add, Set, List, Remove bool; Ops uint8 }
Config(a, s, l, r, ops) == [Add |-> a, Set |-> s, List |-> l, Remove |-> r, Ops |-> ops]

\* flag.Parse() on the arguments after the program name, for the four
\* boolean flags Config.Flags defines: the flags seen up to the first
\* argument that is no flag ("--" ends them too).  An undefined flag ends
\* the process with status 2, -h and -help with status 0.
RECURSIVE ParseFlags(_, _)
ParseFlags(argv, seen) ==
    IF argv = <<>> THEN [seen |-> seen, err |-> ""]
    ELSE LET s    == Head(argv)
             name == IF s[2] = "-" THEN SubSeq(s, 3, Len(s)) ELSE Tail(s)
         IN IF Len(s) < 2 \/ s[1] # "-" THEN [seen |-> seen, err |-> ""]
            ELSE IF s = <<"-", "-">> THEN [seen |-> seen, err |-> ""]
            ELSE IF name = <<>> \/ name[1] = "-"
            THEN [seen |-> seen, err |-> "bad flag syntax"]
            ELSE IF name \in {<<"a">>, <<"s">>, <<"l">>, <<"r">>}
            THEN ParseFlags(Tail(argv), seen \cup {name})
            ELSE IF name \in {<<"h">>, <<"h", "e", "l", "p">>}
            THEN [seen |-> seen, err |-> "help"]
            ELSE [seen |-> seen, err |-> "flag provided but not defined"]

\* FlagsSeen changed to count the arguments without the program name
FlagsArgsOnly(argv, a, s, l, r) ==
    LET ops == (IF a THEN 1 ELSE 0) + (IF s THEN 2 ELSE 0)
               + (IF l THEN 4 ELSE 0) + (IF r THEN 8 ELSE 0)
    IN IF ops # 0 THEN Config(a, s, l, r, ops)
       ELSE Config(Len(argv) = 3, Len(argv) = 2, Len(argv) = 1, FALSE, 0)

\* Flags, lines 39-67: Ops with one bit for each flag set, and the operation
\* the length of os.Args stands for when Ops is 0.  argv is os.Args[1:].
FlagsSeen(argv, a, s, l, r) ==
    LET ops == (IF a THEN 1 ELSE 0) + (IF s THEN 2 ELSE 0)
               + (IF l THEN 4 ELSE 0) + (IF r THEN 8 ELSE 0)
    IN IF ops # 0 THEN Config(a, s, l, r, ops)
       ELSE Config(Len(argv) + 1 = 3, Len(argv) + 1 = 2, Len(argv) + 1 = 1, FALSE, 0)

\* Flags, lines 33-37: the flags flag.Parse() found set
FlagSet(argv) == ParseFlags(argv, {}).seen

\* func (c *Config) Flags()
Flags(argv) ==
    FlagsSeen(argv, <<"a">> \in FlagSet(argv), <<"s">> \in FlagSet(argv),
              <<"l">> \in FlagSet(argv), <<"r">> \in FlagSet(argv))

\* Args changed to return os.Args[1:] whatever the flags
ArgsWithFlags(c, argv) == argv

\* func (c *Config) Args() []string
Args(c, argv) == IF c.Ops = 0 THEN argv ELSE Tail(argv)

\* Validate changed to accept every value of Ops up to the highest bit
ValidateUpTo(c) == c.Ops \in 0..8

\* func (c *Config) Validate() bool
Validate(c) == c.Ops \in {0, 1, 2, 4, 8}

\* func (c *Config) Handler() func(string, []string) error: the name of the
\* handler returned, "noop" for the function that returns nil
Handler(c) ==
    IF c.Add THEN "add"
    ELSE IF c.Set THEN "set"
    ELSE IF c.List THEN "list"
    ELSE IF c.Remove THEN "remove"
    ELSE "noop"

\* the call of the handler Config.Handler returned
Handle(h, f, dir, args, currKubeConfig) ==
    IF h = "add" THEN addKubeconfig(f, dir, args)
    ELSE IF h = "set" THEN setKubeconfig(f, dir, args)
    ELSE IF h = "list" THEN listKubeconfigs(f, dir, currKubeConfig)
    ELSE IF h = "remove" THEN removeKubeconfig(f, dir, args)
    ELSE Ret("", <<>>, f, <<>>, FALSE)

\* the record of one run: os.Args[1:], the handler main dispatched ("none"
\* when it dispatched none), the store directory configPath returned, the
\* handler's error, the link path it resolved, the lines printed, the exit
\* status, whether the run ended in a panic, and the filesystem it leaves
Run(argv, handler, dir, err, sel, out, exit, panic, f) ==
    [args |-> argv, handler |-> handler, dir |-> dir, err |-> err, sel |-> sel,
     out |-> out, exit |-> exit, panic |-> panic, fs |-> f]

\* main, lines 272-275: the end of the run on what the handler returned
Finish(argv, h, dir, r) ==
    IF r.panic THEN Run(argv, h, dir, "", r.sel, r.out, 2, TRUE, r.fs)
    ELSE IF r.err # ""
    THEN Run(argv, h, dir, r.err, r.sel,
             Append(r.out, Line("error handling request: %v", <<>>, <<>>, 0, FALSE)),
             1, FALSE, r.fs)
    ELSE Run(argv, h, dir, "", r.sel, r.out, 0, FALSE, r.fs)

\* main, lines 266-272: the store directory cp, then the handler of cfg
Dispatch(argv, cfg, cp, envKube) ==
    IF cp.err # ""
    THEN Run(argv, "none", cp.path, cp.err, <<>>,
             <<Line("error getting config path: %v", <<>>, <<>>, 0, FALSE)>>,
             1, FALSE, cp.fs)
    ELSE Finish(argv, Handler(cfg), cp.path,
                Handle(Handler(cfg), cp.fs, cp.path, Args(cfg, argv), envKube))

\* main, lines 259-266: after flag.Parse() returned parsed
MainParsed(f, argv, envLib, envKube, parsed) ==
    IF parsed.err # ""
    THEN Run(argv, "none", <<>>, parsed.err, <<>>, <<>>,
             IF parsed.err = "help" THEN 0 ELSE 2, FALSE, f)
    ELSE IF ~Validate(Flags(argv))
    THEN Run(argv, "none", <<>>, "", <<>>,
             <<Line("error validating flags", <<>>, <<>>, 0, FALSE)>>, 1, FALSE, f)
    ELSE Dispatch(argv, Flags(argv), configPath(f, envLib), envKube)

\* func main()
Main(f, argv, envLib, envKube) ==
    MainParsed(f, argv, envLib, envKube, ParseFlags(argv, {}))

(***************************************************************************)
(* The runs the model makes: the files, aliases and selectors given on the *)
(* command line.                                                           *)
(***************************************************************************)
\* file arguments: a relative name with two dots, an absolute name without
\* a dot, and a file that does not exist
FileArgs == {<<"a", ".", "y", ".", "z">>, <<"/", "f", "/", "k">>, <<"/", "f", "/", "n">>}

\* alias arguments: a name, a name that is a number, and a name written
\* with a path separator
AliasArgs == {<<"a">>, <<"2">>, <<".", ".", "/", "x">>}

\* selector arguments: indexes, an alias with white space around it, an
\* alias that is a number with white space before it, a name no entry has
SelectorArgs ==
    {<<"0">>, <<"1">>, <<"2">>, <<"3">>, <<"4">>, <<"a">>, <<" ", "a", " ">>,
     <<" ", "2">>, <<"z">>}

FlagArgs == {<<"-", "a">>, <<"-", "s">>, <<"-", "l">>, <<"-", "r">>}

\* os.Args[1:] of the runs
CmdLines ==
    {<<>>}
    \cup {<<s>> : s \in SelectorArgs}
    \cup {<<f, a>> : f \in FileArgs, a \in AliasArgs}
    \cup {<<fl>> : fl \in FlagArgs}
    \cup {<<<<"-", "a">>, f>> : f \in FileArgs}
    \cup {<<<<"-", "a">>, f, a>> : f \in FileArgs, a \in AliasArgs}
    \cup {<<fl, s>> : fl \in {<<"-", "s">>, <<"-", "r">>},
                      s \in SelectorArgs \cup {<<"-", "1">>}}
    \cup {<<fl, g>> : fl \in FlagArgs, g \in FlagArgs}
    \cup {<<fl, g, <<"1">>>> : fl \in FlagArgs, g \in {<<"-", "a">>, <<"-", "s">>}}
    \cup {<<<<"a", ".", "y", ".", "z">>, <<"a">>, <<"1">>>>,
          <<<<"-", "a">>, <<"-", "s">>, <<"-", "1">>>>}

\* the values of KCONF_LIBRARY_PATH: unset, and a directory written with
\* white space and a trailing slash
LibPaths == {<<>>, <<" ", "/", "s", "/">>}

\* the files of the user that the library can point to
UserFiles == {<<<<"f">>, <<"a", ".", "y", ".", "z">>>>, <<<<"f">>, <<"k">>>>}

\* the file the user deletes in the model
Deletable == {<<<<"f">>, <<"k">>>>}

NumLinks(f) == Cardinality({q \in DOMAIN f : f[q].kind = "link"})

\* no run yet, or the shell is back at its prompt
NoRun == Run(<<>>, "none", <<>>, "", <<>>, <<>>, 0, FALSE, <<>>)

(***************************************************************************)
(* The state machine.                                                      *)
(***************************************************************************)
\* the root, the working directory with the user's files, the home
\* directory; no store directory yet
Init ==
    /\ fs = [q \in {<<>>, <<<<"f">>>>, <<<<"h">>>>} \cup UserFiles |->
                IF q \in UserFiles THEN FileNode ELSE DirNode]
    /\ kubeconfig = <<>>
    /\ libpath \in LibPaths
    /\ pc = "shell"
    /\ pre = fs
    /\ last = NoRun
    /\ adds = <<>>

\* one run of the program, from process start to exit
Invoke(argv) ==
    LET run == Main(fs, argv, libpath, kubeconfig)
    IN /\ pc = "shell"
       /\ NumLinks(run.fs) <= MaxLinks
       /\ pc' = "exited"
       /\ pre' = fs
       /\ last' = run
       /\ fs' = run.fs
       /\ UNCHANGED <<kubeconfig, libpath, adds>>

\* the shell evaluates the line a successful set printed (`kconf 2` in
\* backquotes): KUBECONFIG becomes the path printed
EvalExport ==
    /\ pc = "exited"
    /\ last.exit = 0
    /\ last.out # <<>>
    /\ last.out[1].fmt = "export %s=%s"
    /\ kubeconfig' = last.out[1].a
    /\ pc' = "shell"
    /\ pre' = fs
    /\ last' = NoRun
    /\ UNCHANGED <<fs, libpath, adds>>

\* the process is gone and the shell is back at its prompt
Prompt ==
    /\ pc = "exited"
    /\ pc' = "shell"
    /\ pre' = fs
    /\ last' = NoRun
    /\ UNCHANGED <<fs, kubeconfig, libpath, adds>>

\* the user deletes a file the library may point to
DeleteFile(q) ==
    /\ pc = "shell"
    /\ q \in DOMAIN fs
    /\ fs[q].kind = "file"
    /\ fs' = WithoutNode(fs, q)
    /\ pre' = fs'
    /\ UNCHANGED <<kubeconfig, libpath, pc, last, adds>>

Next ==
    \/ \E argv \in CmdLines : Invoke(argv)
    \/ EvalExport
    \/ Prompt
    \/ \E q \in Deletable : DeleteFile(q)

Spec == Init /\ [][Next]_vars

(***************************************************************************)
(* The runs of a user whose KCONF_LIBRARY_PATH names a directory that      *)
(* already holds a directory and a regular file, or names a regular file.  *)
(***************************************************************************)
\* the kubeconfig files of this user; the base name of the last starts with
\* a dot
FilesStore == {<<"a", ".", "y", ".", "z">>, <<"/", "f", "/", "k">>,
               <<"/", "f", "/", ".", "h">>}

AliasesStore == {<<"0">>, <<"1">>, <<"2">>}

\* indices, and the names of the entry k, of the directory d and of the
\* regular file z of the store
SelectorsStore == {<<"0">>, <<"1">>, <<"2">>, <<"3">>, <<"k">>, <<"d">>, <<"z">>}

\* os.Args[1:] of the runs
CmdLinesStore ==
    {<<>>}
    \cup {<<s>> : s \in SelectorsStore}
    \cup {<<<<"-", "r">>, s>> : s \in SelectorsStore}
    \cup {<<<<"-", "a">>, f>> : f \in FilesStore}
    \cup {<<f, a>> : f \in {<<"a", ".", "y", ".", "z">>, <<"/", "f", "/", "k">>},
                     a \in AliasesStore}

\* the values of KCONF_LIBRARY_PATH: the directory /s, and a regular file
LibPathsStore == {<<"/", "s">>, <<"/", "f", "/", "k">>}

\* the values KUBECONFIG starts with: unset, and a file outside the store
KubeconfigsStore == {<<>>, <<"/", "f", "/", "k">>}

\* the directories and the regular files there are before the first run
DirsStore == {<<>>, <<<<"f">>>>, <<<<"h">>>>, <<<<"s">>>>, <<<<"s">>, <<"d">>>>}

RegularStore == {<<<<"f">>, <<"a", ".", "y", ".", "z">>>>, <<<<"f">>, <<"k">>>>,
                 <<<<"f">>, <<".", "h">>>>, <<<<"s">>, <<"z">>>>}

InitStore ==
    /\ fs = [q \in DirsStore \cup RegularStore |->
                IF q \in RegularStore THEN FileNode ELSE DirNode]
    /\ kubeconfig \in KubeconfigsStore
    /\ libpath \in LibPathsStore
    /\ pc = "shell"
    /\ pre = fs
    /\ last = NoRun
    /\ adds = <<>>

NextStore ==
    \/ \E argv \in CmdLinesStore : Invoke(argv)
    \/ EvalExport
    \/ Prompt

SpecStore == InitStore /\ [][NextStore]_vars

(***************************************************************************)
(* Two add runs at once, for the same alias: each run is a process that    *)
(* makes the system calls of configPath and of addKubeconfig one at a      *)
(* time, and the calls of the two interleave in every order.               *)
(***************************************************************************)
Procs == {1, 2}

\* the alias the two runs are given
RaceAliases == {<<"a">>, <<"2">>}

\* os.Symlink changed to replace the node of an existing name
SymlinkOver(f, oldname, newname) == CreateOver(f, newname, LinkNode(oldname))

\* os.Symlink(oldname, newname)
Symlink(f, oldname, newname) == Create(f, newname, LinkNode(oldname))

\* a run of `kconf file alias` before its first system call: the store
\* path of configPath, and file and symlink of addKubeconfig, lines 122-125
AddRun(file, alias) ==
    [pc      |-> "statDir",
     dir     |-> storeDir(TrimSpace(libpath)),
     file    |-> Abs(file),
     slink   |-> slinkOf(<<file, alias>>),
     symlink |-> storeDir(TrimSpace(libpath)) \o Slash \o slinkOf(<<file, alias>>),
     err     |-> "",
     at      |-> ""]

\* the run p goes on to the step next
Goes(p, next) == adds' = [adds EXCEPT ![p].pc = next]

\* the run p ends at the step at with the error err ("" for none): main
\* prints the error and exits with status 1, or exits with status 0
Ends(p, at, err) == adds' = [adds EXCEPT ![p].pc = "done", ![p].err = err, ![p].at = at]

\* the store directory exists, or not yet, for one run or for both
InitRace ==
    /\ libpath \in LibPaths
    /\ \E made \in BOOLEAN :
          fs = IF made
               THEN ensureDir([q \in {<<>>, <<<<"f">>>>, <<<<"h">>>>} \cup UserFiles |->
                                  IF q \in UserFiles THEN FileNode ELSE DirNode],
                              storeDir(TrimSpace(libpath))).fs
               ELSE [q \in {<<>>, <<<<"f">>>>, <<<<"h">>>>} \cup UserFiles |->
                        IF q \in UserFiles THEN FileNode ELSE DirNode]
    /\ kubeconfig = <<>>
    /\ pc = "shell"
    /\ pre = fs
    /\ last = NoRun
    /\ \E alias \in RaceAliases : \E f1 \in FileArgs, f2 \in FileArgs :
          adds = [p \in Procs |-> AddRun(IF p = 1 THEN f1 ELSE f2, alias)]

\* configPath, line 226: if exists(configPath)
StatDir(p) ==
    /\ adds[p].pc = "statDir"
    /\ IF exists(fs, adds[p].dir) THEN Goes(p, "statFile") ELSE Goes(p, "mkdir")
    /\ UNCHANGED <<fs, kubeconfig, libpath, pc, pre, last>>

\* configPath, line 230: os.Mkdir(configPath, confDirFileMode)
Mkdir(p) ==
    /\ adds[p].pc = "mkdir"
    /\ fs' = Create(fs, adds[p].dir, DirNode).fs
    /\ IF Create(fs, adds[p].dir, DirNode).err = ""
       THEN Goes(p, "statFile")
       ELSE Ends(p, "mkdir", Create(fs, adds[p].dir, DirNode).err)
    /\ UNCHANGED <<kubeconfig, libpath, pc, pre, last>>

\* addKubeconfig, line 130: if !exists(file)
StatFile(p) ==
    /\ adds[p].pc = "statFile"
    /\ IF exists(fs, adds[p].file)
       THEN Goes(p, "statLink")
       ELSE Ends(p, "statFile", "kubeconfig not found")
    /\ UNCHANGED <<fs, kubeconfig, libpath, pc, pre, last>>

\* addKubeconfig, line 134: if exists(symlink)
StatLink(p) ==
    /\ adds[p].pc = "statLink"
    /\ IF exists(fs, adds[p].symlink)
       THEN Ends(p, "statLink", "kubeconfig already exists")
       ELSE Goes(p, "symlink")
    /\ UNCHANGED <<fs, kubeconfig, libpath, pc, pre, last>>

\* addKubeconfig, lines 138-144: os.Symlink(file, symlink), and the message
MakeLink(p) ==
    /\ adds[p].pc = "symlink"
    /\ fs' = Symlink(fs, adds[p].file, adds[p].symlink).fs
    /\ Ends(p, "symlink", Symlink(fs, adds[p].file, adds[p].symlink).err)
    /\ UNCHANGED <<kubeconfig, libpath, pc, pre, last>>

NextRace ==
    \/ \E p \in Procs : StatDir(p)
    \/ \E p \in Procs : Mkdir(p)
    \/ \E p \in Procs : StatFile(p)
    \/ \E p \in Procs : StatLink(p)
    \/ \E p \in Procs : MakeLink(p)

SpecRace == InitRace /\ [][NextRace]_vars

(***************************************************************************)
(* The store as the properties see it.                                     *)
(***************************************************************************)
\* the store directory of the runs of this behaviour, as a path string
StoreName == storeDir(TrimSpace(libpath))

\* the resolved path of the store directory in f
StorePath(f) == Stat(f, StoreName).path

\* whether the store directory exists in f
HasStore(f) == Stat(f, StoreName).err = "" /\ f[StorePath(f)].kind = "dir"

\* the entries of the store in f: the symbolic links that are children of
\* the store directory, as pairs <<alias, target>>
Entries(f) ==
    IF ~HasStore(f) THEN {}
    ELSE {<<q[Len(q)], f[q].target>> :
             q \in {c \in Children(f, StorePath(f)) : f[c].kind = "link"}}

Aliases(f) == {e[1] : e \in Entries(f)}

\* every symbolic link of f, in the store or not, with its target
AllLinks(f) == {<<q, f[q].target>> : q \in {c \in DOMAIN f : f[c].kind = "link"}}

\* the aliases a List run on f prints, in the order of its lines
Listed(f) ==
    LET r == listKubeconfigs(f, StoreName, kubeconfig)
    IN [i \in 1..Len(r.out) |-> r.out[i].a]

ListedSet(f) == {Listed(f)[i] : i \in 1..Len(Listed(f))}

\* the arguments the handler of the last run was given
LastArgs == Args(Flags(last.args), last.args)

\* the alias a run of add with these arguments asks for
AliasAsked == IF Len(LastArgs) >= 2 THEN LastArgs[2] ELSE slinkOf(LastArgs)

\* a string of n spaces
Spaces(n) == [i \in 1..n |-> " "]

\* the alias at position i of the aliases of f in increasing byte order
AliasAt(f, i) ==
    CHOOSE a \in Aliases(f) : Cardinality({b \in Aliases(f) : StrLess(b, a)}) = i - 1

\* the last run was a set or a remove given the selector sel
Selected(sel) ==
    /\ pc = "exited"
    /\ last.handler \in {"set", "remove"}
    /\ Len(LastArgs) >= 1
    /\ LastArgs[1] = sel

\* the last run resolved the entry with alias a of the store it started on
ResolvedTo(a) ==
    /\ ~last.panic
    /\ last.err = ""
    /\ last.exit = 0
    /\ last.sel # <<>>
    /\ Lstat(pre, last.sel).err = ""
    /\ Lstat(pre, last.sel).path = Append(StorePath(pre), a)
    /\ pre[Lstat(pre, last.sel).path].kind = "link"

(***************************************************************************)
(* C1  A successful Add(f, a), a an alias without a path separator, is     *)
(* followed by a listing that shows a; the entry a is a link whose target  *)
(* is an absolute path that resolves to the file f; every entry present    *)
(* before is still listed, with its target unchanged.                      *)
(***************************************************************************)
C1_AddThenList ==
    (/\ pc = "exited"
     /\ last.handler = "add"
     /\ last.exit = 0
     /\ Len(LastArgs) >= 2
     /\ "/" \notin {LastArgs[2][i] : i \in 1..Len(LastArgs[2])})
    => /\ LastArgs[2] \in ListedSet(fs)
       /\ \E e \in Entries(fs) :
             /\ e[1] = LastArgs[2]
             /\ IsAbs(e[2])
             /\ Stat(pre, LastArgs[1]).err = ""
             /\ Stat(fs, e[2]).err = ""
             /\ Stat(fs, e[2]).path = Stat(pre, LastArgs[1]).path
       /\ \A e \in Entries(pre) : e \in Entries(fs) /\ e[1] \in ListedSet(fs)
       /\ LastArgs[2] \notin Aliases(pre)

\* an add of a relative file name under a new alias succeeded in a store
\* that already had an entry
C1_Witness ==
    /\ pc = "exited"
    /\ last.handler = "add"
    /\ last.exit = 0
    /\ Len(LastArgs) >= 2
    /\ ~IsAbs(LastArgs[1])
    /\ LastArgs[2] \in Aliases(fs)
    /\ Entries(pre) # {}

(***************************************************************************)
(* C2  An add whose alias, given or derived from the file name, is already *)
(* an entry of the store fails with an error and changes nothing: the same *)
(* entries with the same targets, also when the target of the existing     *)
(* entry no longer exists.                                                 *)
(***************************************************************************)
C2_AddExistingAlias ==
    (/\ pc = "exited"
     /\ last.handler = "add"
     /\ Len(LastArgs) >= 1
     /\ AliasAsked \in Aliases(pre))
    => /\ last.err # ""
       /\ last.exit = 1
       /\ ~last.panic
       /\ Entries(fs) = Entries(pre)
       /\ fs = pre

\* an add of an existing file under the alias of an entry whose target was
\* deleted has failed
C2_Witness ==
    /\ pc = "exited"
    /\ last.handler = "add"
    /\ Len(LastArgs) >= 1
    /\ Stat(pre, LastArgs[1]).err = ""
    /\ \E e \in Entries(pre) : e[1] = AliasAsked /\ Stat(pre, e[2]).err = "ENOENT"
    /\ last.exit = 1

(***************************************************************************)
(* C3  An add whose file argument does not exist fails with the not-found  *)
(* error and creates no entry, whatever the alias.                         *)
(***************************************************************************)
C3_AddMissingFile ==
    (/\ pc = "exited"
     /\ last.handler = "add"
     /\ Len(LastArgs) >= 1
     /\ Stat(pre, LastArgs[1]).err = "ENOENT")
    => /\ last.err = "kubeconfig not found"
       /\ last.exit = 1
       /\ Entries(fs) = Entries(pre)
       /\ AllLinks(fs) = AllLinks(pre)

\* an add of a file that does not exist, under an alias the store does not
\* have, has failed
C3_Witness ==
    /\ pc = "exited"
    /\ last.handler = "add"
    /\ Len(LastArgs) >= 2
    /\ Stat(pre, LastArgs[1]).err = "ENOENT"
    /\ LastArgs[2] \notin Aliases(pre)
    /\ Entries(pre) # {}
    /\ last.err = "kubeconfig not found"

(***************************************************************************)
(* C4  In a store of N entries, set and remove given the integer i,        *)
(* 1 <= i <= N, select the i-th entry in the byte order of the aliases.    *)
(***************************************************************************)
C4_IndexSelects ==
    \A sel \in SelectorArgs :
        (/\ Selected(sel)
         /\ ~Atoi(sel).err
         /\ Atoi(sel).val \in 1..Cardinality(Entries(pre)))
        => ResolvedTo(AliasAt(pre, Atoi(sel).val))

\* remove given the index 2 resolved the second entry of a store with two
\* entries or more
C4_Witness ==
    /\ Selected(<<"2">>)
    /\ Cardinality(Entries(pre)) >= 2
    /\ ResolvedTo(AliasAt(pre, 2))
    /\ last.handler = "remove"

(***************************************************************************)
(* C5  In a store of N entries, set and remove given the integer 0, N + 1  *)
(* or a negative one fail with the error "index out of range", returned by *)
(* the handler: exit status 1, no panic, nothing resolved, printed or      *)
(* removed.                                                                *)
(***************************************************************************)
C5_IndexOutOfRange ==
    \A sel \in SelectorArgs :
        (/\ Selected(sel)
         /\ ~Atoi(sel).err
         /\ \/ Atoi(sel).val <= 0
            \/ Atoi(sel).val = Cardinality(Entries(pre)) + 1)
        => /\ ~last.panic
           /\ last.err = "index out of range"
           /\ last.exit = 1
           /\ last.sel = <<>>
           /\ \A i \in 1..Len(last.out) : last.out[i].fmt = "error handling request: %v"
           /\ Entries(fs) = Entries(pre)

(***************************************************************************)
(* C6  A selector that is no integer and is an alias of the store with     *)
(* white space around it selects the entry of that alias, whatever its     *)
(* position.                                                               *)
(***************************************************************************)
C6_NameSelects ==
    \A sel \in SelectorArgs : \A a \in Aliases(pre) :
        (/\ Selected(sel)
         /\ Atoi(sel).err
         /\ a[1] # " " /\ a[Len(a)] # " "
         /\ \E l, r \in 0..2 : sel = Spaces(l) \o a \o Spaces(r))
        => ResolvedTo(a)

\* the selector " a " resolved the entry a, at position 2 of a store with two
\* entries or more
C6_Witness ==
    /\ Selected(<<" ", "a", " ">>)
    /\ Cardinality(Entries(pre)) >= 2
    /\ AliasAt(pre, 2) = <<"a">>
    /\ ResolvedTo(<<"a">>)

(***************************************************************************)
(* C7  A selector that is no integer and, trimmed, is no alias of the      *)
(* store makes set and remove fail with an error returned by the handler:  *)
(* exit status 1, no panic, nothing selected or removed.                   *)
(***************************************************************************)
C7_NoSuchEntry ==
    \A sel \in SelectorArgs :
        (/\ Selected(sel)
         /\ Atoi(sel).err
         /\ \A a \in Aliases(pre) : \A l, r \in 0..2 : sel # Spaces(l) \o a \o Spaces(r))
        => /\ ~last.panic
           /\ last.err # ""
           /\ last.exit = 1
           /\ last.sel = <<>>
           /\ Entries(fs) = Entries(pre)

(***************************************************************************)
(* C8  Set leaves every entry of the store as it was, whatever the         *)
(* selector; when it resolves an entry it prints one line, the export of   *)
(* KUBECONFIG as the path of that entry in the store directory: a path     *)
(* that ends in "/" and the alias and names the link itself, not the file  *)
(* the link points to.                                                     *)
(***************************************************************************)
C8_SetReadsOnly ==
    (pc = "exited" /\ last.handler = "set")
    => /\ Entries(fs) = Entries(pre)
       /\ AllLinks(fs) = AllLinks(pre)
       /\ \A q \in DOMAIN pre : q \in DOMAIN fs /\ fs[q] = pre[q]
       /\ (last.sel # <<>> /\ last.exit = 0)
          => /\ Len(last.out) = 1
             /\ last.out[1].fmt = "export %s=%s"
             /\ \E a \in Aliases(pre) :
                   /\ Lstat(pre, last.out[1].a).err = ""
                   /\ Lstat(pre, last.out[1].a).path = Append(StorePath(pre), a)
                   /\ Len(last.out[1].a) > Len(a) + 1
                   /\ SubSeq(last.out[1].a, Len(last.out[1].a) - Len(a),
                             Len(last.out[1].a)) = Slash \o a
                   /\ <<a, last.out[1].a>> \notin Entries(pre)

\* set resolved an entry of a store with two entries or more
C8_Witness ==
    /\ pc = "exited"
    /\ last.handler = "set"
    /\ last.exit = 0
    /\ last.sel # <<>>
    /\ Len(last.out) = 1
    /\ Cardinality(Entries(pre)) >= 2

(***************************************************************************)
(* C9  A successful remove deletes the symbolic link its selector resolved *)
(* and nothing else: that alias is no longer listed, every other entry is  *)
(* there with its target, and the file the link pointed to is untouched.   *)
(***************************************************************************)
C9_RemoveOnlyTheLink ==
    (pc = "exited" /\ last.handler = "remove" /\ last.exit = 0 /\ last.sel # <<>>)
    => LET q == Lstat(pre, last.sel).path
       IN /\ Lstat(pre, last.sel).err = ""
          /\ pre[q].kind = "link"
          /\ <<q[Len(q)], pre[q].target>> \in Entries(pre)
          /\ q[Len(q)] \notin ListedSet(fs)
          /\ Entries(fs) = Entries(pre) \ {<<q[Len(q)], pre[q].target>>}
          /\ DOMAIN fs = DOMAIN pre \ {q}
          /\ \A x \in DOMAIN fs : fs[x] = pre[x]

\* remove deleted one of two or more entries, one whose target file exists
C9_Witness ==
    /\ pc = "exited"
    /\ last.handler = "remove"
    /\ last.exit = 0
    /\ last.sel # <<>>
    /\ Cardinality(Entries(pre)) >= 2
    /\ Cardinality(Entries(fs)) = Cardinality(Entries(pre)) - 1
    /\ Stat(fs, pre[Lstat(pre, last.sel).path].target).err = ""

(***************************************************************************)
(* C10  A run whose command line sets two or more of -a, -s, -l, -r ends   *)
(* with the validation error and exit status 1; main dispatches no handler *)
(* and the filesystem is as before: no entry made or removed, no store     *)
(* directory made.                                                         *)
(***************************************************************************)
C10_TwoFlagsRejected ==
    (/\ pc = "exited"
     /\ ParseFlags(last.args, {}).err = ""
     /\ Cardinality(FlagSet(last.args)) >= 2)
    => /\ last.handler = "none"
       /\ last.exit = 1
       /\ Len(last.out) = 1
       /\ last.out[1].fmt = "error validating flags"
       /\ fs = pre

\* two flags were given before the store directory existed
C10_Witness ==
    /\ pc = "exited"
    /\ Cardinality(FlagSet(last.args)) >= 2
    /\ ParseFlags(last.args, {}).err = ""
    /\ ~HasStore(pre)
    /\ last.exit = 1


(***************************************************************************)
(* C11  The handler main dispatches, for every command line flag.Parse     *)
(* accepts: with exactly one of -a, -s, -l, -r, the handler of that flag,  *)
(* whatever else is given; with no flag, list for no argument, set for     *)
(* one, add for two, and for three or more a handler that does nothing:    *)
(* exit status 0 and every entry of the store as before.                   *)
(***************************************************************************)
\* the flags among the arguments of the last run
FlagsGiven == {last.args[i] : i \in 1..Len(last.args)} \cap FlagArgs

\* no argument of the last run looks like a flag without being one
FlagsAccepted ==
    \A i \in 1..Len(last.args) : last.args[i][1] = "-" => last.args[i] \in FlagArgs

C11_Dispatch ==
    (pc = "exited" /\ FlagsAccepted)
    => /\ FlagsGiven = {<<"-", "a">>} => last.handler = "add"
       /\ FlagsGiven = {<<"-", "s">>} => last.handler = "set"
       /\ FlagsGiven = {<<"-", "l">>} => last.handler = "list"
       /\ FlagsGiven = {<<"-", "r">>} => last.handler = "remove"
       /\ (FlagsGiven = {} /\ Len(last.args) = 0) => last.handler = "list"
       /\ (FlagsGiven = {} /\ Len(last.args) = 1) => last.handler = "set"
       /\ (FlagsGiven = {} /\ Len(last.args) = 2) => last.handler = "add"
       /\ (FlagsGiven = {} /\ Len(last.args) >= 3)
          => /\ last.handler = "noop"
             /\ last.exit = 0
             /\ last.out = <<>>
             /\ Entries(fs) = Entries(pre)
             /\ AllLinks(fs) = AllLinks(pre)

\* three arguments and no flag were given to a store with an entry
C11_Witness ==
    /\ pc = "exited"
    /\ FlagsGiven = {}
    /\ Len(last.args) = 3
    /\ last.handler = "noop"
    /\ Entries(pre) # {}


(***************************************************************************)
(* C12  The listing and the resolver number the entries alike: when list,  *)
(* run on the store a set or a remove started on, prints the ordinal i     *)
(* next to the alias a, the run given the integer i resolves the entry a;  *)
(* and every ordinal list prints is one of 1..N for the N entries of the   *)
(* store.                                                                  *)
(***************************************************************************)
\* the lines list prints on the store the last run started on
ListingBefore == listKubeconfigs(pre, StoreName, kubeconfig).out

C12_SameOrdering ==
    \A sel \in SelectorArgs :
        (Selected(sel) /\ ~Atoi(sel).err)
        => \A i \in 1..Len(ListingBefore) :
              /\ ListingBefore[i].n \in 1..Cardinality(Entries(pre))
              /\ ListingBefore[i].n = Atoi(sel).val => ResolvedTo(ListingBefore[i].a)

\* set given 2 resolved the alias the listing of a store with three entries
\* shows next to the ordinal 2
C12_Witness ==
    /\ Selected(<<"2">>)
    /\ last.handler = "set"
    /\ Len(ListingBefore) = 3
    /\ ListingBefore[2].n = 2
    /\ ResolvedTo(ListingBefore[2].a)


(***************************************************************************)
(* C15  The store stays flat: every symbolic link an add run creates is a  *)
(* direct child of the store directory, whatever the alias, "../x" and     *)
(* "sub/x" included; none appears outside the store or below a             *)
(* subdirectory of it.                                                     *)
(***************************************************************************)
\* the paths of the symbolic links the last run created
LinksCreated == {l[1] : l \in AllLinks(fs)} \ {l[1] : l \in AllLinks(pre)}

C15_StoreStaysFlat ==
    (pc = "exited" /\ last.handler = "add")
    => \A q \in LinksCreated :
          /\ HasStore(fs)
          /\ Len(q) = Len(StorePath(fs)) + 1
          /\ SubSeq(q, 1, Len(q) - 1) = StorePath(fs)


(***************************************************************************)
(* C16  Add, set and remove chosen by their flag and given no positional   *)
(* argument fail with "not enough arguments": exit status 1, nothing       *)
(* printed but the error, nothing resolved or removed, and every entry and *)
(* every link as before the run.                                           *)
(***************************************************************************)
\* the last run was given the flag fl and nothing else
OnlyFlag(fl) == pc = "exited" /\ last.args = <<fl>>

C16_NotEnoughArguments ==
    \A fl \in {<<"-", "a">>, <<"-", "s">>, <<"-", "r">>} :
        OnlyFlag(fl)
        => /\ last.err = "not enough arguments"
           /\ last.exit = 1
           /\ ~last.panic
           /\ \A i \in 1..Len(last.out) : last.out[i].fmt = "error handling request: %v"
           /\ last.sel = <<>>
           /\ Entries(fs) = Entries(pre)
           /\ AllLinks(fs) = AllLinks(pre)

\* remove was given no argument on a store with two entries
C16_Witness ==
    /\ OnlyFlag(<<"-", "r">>)
    /\ last.handler = "remove"
    /\ last.err = "not enough arguments"
    /\ Cardinality(Entries(pre)) = 2


(***************************************************************************)
(* C14  When the store directory cannot be read, list, and set and remove  *)
(* given a selector, end with an error: the handler returns one, main      *)
(* prints it and the exit status is 1; none of them ends with status 0.    *)
(***************************************************************************)
\* the last run was a list, a set or a remove that came to read the store
ReadTheStore ==
    /\ pc = "exited"
    /\ \/ last.handler = "list"
       \/ last.handler \in {"set", "remove"} /\ Len(LastArgs) >= 1

C14_ReadFailureIsTerminal ==
    (ReadTheStore /\ ReadDir(pre, StoreName).err # "" /\ ReadDir(fs, StoreName).err # "")
    => /\ last.err # ""
       /\ last.exit = 1
       /\ Len(last.out) = 1
       /\ last.out[1].fmt = "error handling request: %v"


(***************************************************************************)
(* C17  A selector that is a decimal integer k is resolved by position,    *)
(* never by name: in a store that has an entry with the alias k, set and   *)
(* remove given k resolve the entry at position k of the listing when k is *)
(* one of 1..N, and fail with "index out of range", exit status 1 and      *)
(* nothing resolved or removed, when it is not.                            *)
(***************************************************************************)
C17_IntegerIsAPosition ==
    \A sel \in SelectorsStore :
        (Selected(sel) /\ ~Atoi(sel).err /\ sel \in Aliases(pre))
        => IF Atoi(sel).val \in 1..Cardinality(Entries(pre))
           THEN ResolvedTo(AliasAt(pre, Atoi(sel).val))
           ELSE /\ last.err = "index out of range"
                /\ last.exit = 1
                /\ ~last.panic
                /\ last.sel = <<>>
                /\ Entries(fs) = Entries(pre)


(***************************************************************************)
(* C18  Only symbolic links are entries.  The directories and the regular  *)
(* files of the store directory are on no line of list, which prints one   *)
(* line for each link; an index k of 1..N, N the number of links, resolves *)
(* the k-th link; no set or remove, given an index or a name, resolves a   *)
(* directory or a regular file of the store; and after every run they are  *)
(* all there as before.                                                    *)
(***************************************************************************)
\* the children of the store directory of f that are not symbolic links
Foreign(f) ==
    IF ~HasStore(f) THEN {}
    ELSE {q \in Children(f, StorePath(f)) : f[q].kind # "link"}

C18_OnlyLinksAreEntries ==
    (pc = "exited" /\ Foreign(pre) # {})
    => /\ \A q \in Foreign(pre) : q \in DOMAIN fs /\ fs[q] = pre[q]
       /\ last.sel # <<>> => Lstat(pre, last.sel).path \notin Foreign(pre)
       /\ (last.handler = "list" /\ last.err = "")
          => /\ Len(last.out) = Cardinality(Entries(pre))
             /\ \A i \in 1..Len(last.out) :
                   Append(StorePath(pre), last.out[i].a) \notin Foreign(pre)
       /\ \A sel \in SelectorsStore :
             (/\ Selected(sel)
              /\ ~Atoi(sel).err
              /\ Atoi(sel).val \in 1..Cardinality(Entries(pre)))
             => ResolvedTo(AliasAt(pre, Atoi(sel).val))

\* remove given 2 resolved the link k of a store whose directory reads
\* a, d, k, z, where d is a directory and z a regular file
C18_Witness ==
    /\ Selected(<<"2">>)
    /\ last.handler = "remove"
    /\ Aliases(pre) = {<<"a">>, <<"k">>}
    /\ Cardinality(Foreign(pre)) = 2
    /\ ResolvedTo(<<"k">>)
    /\ Foreign(fs) = Foreign(pre)


(***************************************************************************)
(* C19  The alias of an add run: with a file and no alias, the base name   *)
(* of the file cut before its first "." (all of it when it has no dot,     *)
(* "a" for "a.y.z"); with an alias given, that alias as written.  A run    *)
(* that succeeds adds the entry of that alias and no other, and says so;   *)
(* a base name that starts with "." gives the empty alias, and the run     *)
(* then fails and adds no entry.                                           *)
(***************************************************************************)
\* what follows the last "/" of the string s
AfterLastSlash(s) ==
    LET at == {i \in 1..Len(s) : s[i] = "/"}
    IN IF at = {} THEN s
       ELSE SubSeq(s, (CHOOSE i \in at : \A j \in at : j <= i) + 1, Len(s))

\* what comes before the first "." of the string s
BeforeFirstDot(s) ==
    LET at == {i \in 1..Len(s) : s[i] = "."}
    IN IF at = {} THEN s
       ELSE SubSeq(s, 1, (CHOOSE i \in at : \A j \in at : i <= j) - 1)

\* the alias the spec gives the add run of the last command line
AliasExpected ==
    IF Len(LastArgs) >= 2 THEN LastArgs[2]
    ELSE BeforeFirstDot(AfterLastSlash(LastArgs[1]))

C19_AliasDerivation ==
    (pc = "exited" /\ last.handler = "add" /\ Len(LastArgs) >= 1)
    => /\ last.exit = 0
          => /\ {e[1] : e \in Entries(fs) \ Entries(pre)} = {AliasExpected}
             /\ Entries(pre) \subseteq Entries(fs)
             /\ last.out[1].a = AliasExpected
       /\ AliasExpected = <<>>
          => /\ last.exit = 1
             /\ Entries(fs) = Entries(pre)
             /\ AllLinks(fs) = AllLinks(pre)

\* add given /f/.h and no alias failed on a store that holds the entries a
\* and k, derived from a.y.z and from /f/k
C19_Witness ==
    /\ pc = "exited"
    /\ last.handler = "add"
    /\ LastArgs = <<<<"/", "f", "/", ".", "h">>>>
    /\ AliasExpected = <<>>
    /\ last.exit = 1
    /\ Entries(pre) = {<<<<"a">>, <<"/", "f", "/", "a", ".", "y", ".", "z">>>>,
                       <<<<"k">>, <<"/", "f", "/", "k">>>>}


(***************************************************************************)
(* C20  A list run that succeeds prints one line for each entry, the i-th  *)
(* with the ordinal i and the i-th alias, and the mark "*" on exactly the  *)
(* lines of the entries whose path, the store path, "/" and the alias, is  *)
(* the value of KUBECONFIG: at most one line is marked, and none when      *)
(* KUBECONFIG is unset or names a file outside the store.  The run leaves  *)
(* the filesystem and KUBECONFIG as they were.                             *)
(***************************************************************************)
\* the path of the entry alias of the store of f
EntryPath(f, alias) == <<"/">> \o JoinStr(Append(StorePath(f), alias), <<"/">>)

\* the lines of the last run that carry the mark
Marked == {i \in 1..Len(last.out) : last.out[i].star}

C20_Lines ==
    (pc = "exited" /\ last.handler = "list" /\ last.err = "")
    => /\ Len(last.out) = Cardinality(Entries(pre))
       /\ \A i \in 1..Len(last.out) :
             /\ last.out[i].fmt = "%s%d) %s"
             /\ last.out[i].n = i
             /\ last.out[i].a = AliasAt(pre, i)
             /\ last.out[i].star <=> kubeconfig = EntryPath(pre, last.out[i].a)
       /\ Cardinality(Marked) <= 1
       /\ kubeconfig \in KubeconfigsStore => Marked = {}

\* the step that is a list run changes neither KUBECONFIG nor the
\* filesystem, and the state a step leaves has the lines of C20_Lines
C20_ListMarks ==
    [][/\ (pc' = "exited" /\ last'.handler = "list")
          => (kubeconfig' = kubeconfig /\ fs' = fs)
       /\ C20_Lines]_vars

\* list printed three lines and marked the second, and not the entry k
\* that has the name of the file KUBECONFIG named at first
C20_Witness ==
    /\ pc = "exited"
    /\ last.handler = "list"
    /\ Len(last.out) = 3
    /\ Marked = {2}
    /\ last.out[3].a = <<"k">>


(***************************************************************************)
(* C13  Two add runs for the same alias, their system calls interleaved in *)
(* any order: at most one ends without error; from the moment it has, the  *)
(* entry of the alias is a link to the file of that run, whatever the      *)
(* other run does next; and the other run ends with an error.              *)
(***************************************************************************)
\* the runs that have ended
Done == {p \in Procs : adds[p].pc = "done"}

\* the runs that have ended without error
Winners == {p \in Done : adds[p].err = ""}

C13_OneAddWins ==
    /\ Cardinality(Winners) <= 1
    /\ \A p \in Winners :
          /\ Lstat(fs, adds[p].symlink).err = ""
          /\ fs[Lstat(fs, adds[p].symlink).path] = LinkNode(adds[p].file)
          /\ \A q \in Done \ {p} :
                adds[q].err \in {"EEXIST", "kubeconfig already exists",
                                 "kubeconfig not found"}

\* both runs found no entry of the alias and went on to os.Symlink for two
\* different files; the first made the entry, the second got EEXIST
C13_Witness ==
    /\ Done = Procs
    /\ adds[1].file # adds[2].file
    /\ \E p \in Procs :
          /\ Winners = {p}
          /\ \E q \in Procs \ {p} : adds[q].at = "symlink" /\ adds[q].err = "EEXIST"

====
